---- MODULE Spec2Model ----
(***************************************************************************)
(* Model of the whentochat Mattermost plugin: the revision of plugin.go    *)
(* with the MaxChannelMembers guard and the compact display.               *)
(*                                                                         *)
(* Instants are whole hours since the Unix epoch (UTC).  A calendar date   *)
(* (Year, Month, Day) is a day number: the hours since the epoch in the    *)
(* zone's wall clock, divided by 24.  Zones are fixed-offset zones of the  *)
(* timezone database, so time.Date never meets a DST gap.                  *)
(***************************************************************************)
EXTENDS Integers, Sequences, FiniteSets

\* ------------------------------------------------------------------ bounds

\* longest member list given to the pure functions
MaxLen == 3
\* most entries (bots included) the membership source holds for the channel
MaxMembers == 4
\* page size of GetUsersInChannel: 100 in the source, scaled down so that full
\* pages and a second and third page occur
batchSize == 2
\* verbose/compact threshold: 50 in the source, scaled down so that the compact
\* display occurs
maxDisplayUserBullets == 2
\* largest configured MaxChannelMembers
MaxLimit == 3

\* ------------------------------------------------------------------ Go values

\* a nil *time.Location
NilLoc == "<nil>"

\* the zero time.Time (January 1, year 1, 00:00 UTC) in hours since the Unix epoch:
\* the value of window's named results start and end before any assignment
ZeroTime == 0 - 17259888

\* the timezone database: name -> UTC offset in hours, for the zones the model uses
ZoneOffset ==
  [z \in {"UTC", "Asia/Tokyo", "America/Guatemala", "America/Phoenix"} |->
     CASE z = "UTC" -> 0
       [] z = "Asia/Tokyo" -> 9
       [] z = "America/Guatemala" -> 0 - 6
       [] z = "America/Phoenix" -> 0 - 7]

ZoneAbbr ==
  [z \in DOMAIN ZoneOffset |->
     CASE z = "UTC" -> "UTC"
       [] z = "Asia/Tokyo" -> "JST"
       [] z = "America/Guatemala" -> "CST"
       [] z = "America/Phoenix" -> "MST"]

\* time.LoadLocation(name): "" and "UTC" both give UTC without an error; a name
\* of the database gives its zone; any other name gives an error
LoadLocation(name) ==
  IF name = "" \/ name = "UTC" THEN [loc |-> "UTC", err |-> FALSE]
  ELSE IF name \in DOMAIN ZoneOffset THEN [loc |-> name, err |-> FALSE]
  ELSE [loc |-> NilLoc, err |-> TRUE]

\* (*time.Location).String(): the zone's name; a nil receiver reads as UTC
LocString(loc) == IF loc = NilLoc THEN "UTC" ELSE loc

\* strconv.ParseBool
ParseBool(str) ==
  IF str \in {"1", "t", "T", "TRUE", "true", "True"} THEN [b |-> TRUE, err |-> FALSE]
  ELSE IF str \in {"0", "f", "F", "FALSE", "false", "False"} THEN [b |-> FALSE, err |-> FALSE]
  ELSE [b |-> FALSE, err |-> TRUE]

\* indexing a map[string]string: the zero value "" for a missing key
Lookup(m, k) == IF k \in DOMAIN m THEN m[k] ELSE ""

\* the calendar date (Year, Month, Day) of instant t read in zone loc
LocalDay(t, loc) == (t + ZoneOffset[loc]) \div 24

\* time.Date(year, month, day, hour, 0, 0, 0, loc)
Date(day, hour, loc) == day * 24 + hour - ZoneOffset[loc]

\* Time.After, Time.Before, Time.Equal compare instants
After(t, u) == t > u
Before(t, u) == t < u
Equal(t, u) == t = u

\* ------------------------------------------------------------------ location

\* the zone name location selects
locationName(user) ==
  LET p == ParseBool(Lookup(user.Timezone, "useAutomaticTimezone"))
      useAutomatic == IF ~p.err THEN p.b ELSE FALSE
  IN IF useAutomatic THEN Lookup(user.Timezone, "automaticTimezone")
     ELSE Lookup(user.Timezone, "manualTimezone")

location(user) ==
  LET l == LoadLocation(locationName(user))
  IN IF l.err THEN NilLoc ELSE l.loc

\* ------------------------------------------------------------------ window

\* time.Now() in the loop iteration of the i-th user (1-based): the clock reads
\* now until iteration tickAt and one hour more from then on
Clock(now, tickAt, i) == IF i >= tickAt THEN now + 1 ELSE now

\* userEarliestStart and userLatestEnd: 07:00 and 22:00 in loc on the date that
\* now.Year(), now.Month(), now.Day() name, now being the server's local time
userEarliestStart(now, serverLoc, loc) == Date(LocalDay(now, serverLoc), 7, loc)
userLatestEnd(now, serverLoc, loc) == Date(LocalDay(now, serverLoc), 22, loc)

\* if userEarliestStart.After(start) { start = userEarliestStart }
laterStart(start, ues) == IF After(ues, start) THEN ues ELSE start

\* mutant: the end is never lowered
earlierEndKept(end, ule) == end

\* if userLatestEnd.Before(end) { end = userLatestEnd }
earlierEnd(end, ule) == IF Before(ule, end) THEN ule ELSE end

\* if start.After(end) || start.Equal(end) { return }
noWindow(start, end) == After(start, end) \/ Equal(start, end)

\* if i == 0 (the range index; 1 in a 1-based sequence)
firstIteration(i) == i = 1

RECURSIVE windowLoop(_, _, _, _, _, _, _)
windowLoop(users, now, tickAt, serverLoc, i, start, end) ==
  IF i > Len(users) THEN [start |-> start, end |-> end, ok |-> TRUE]
  ELSE
    LET loc == location(users[i])
    IN IF loc = NilLoc
       THEN windowLoop(users, now, tickAt, serverLoc, i + 1, start, end)
       ELSE
         LET t == Clock(now, tickAt, i)
             ues == userEarliestStart(t, serverLoc, loc)
             ule == userLatestEnd(t, serverLoc, loc)
             s0 == IF firstIteration(i) THEN ues ELSE start
             e0 == IF firstIteration(i) THEN ule ELSE end
             s1 == laterStart(s0, ues)
             e1 == earlierEnd(e0, ule)
         IN IF noWindow(s1, e1)
            THEN [start |-> s1, end |-> e1, ok |-> FALSE]
            ELSE windowLoop(users, now, tickAt, serverLoc, i + 1, s1, e1)

window(users, now, tickAt, serverLoc) ==
  windowLoop(users, now, tickAt, serverLoc, 1, ZeroTime, ZeroTime)

\* ------------------------------------------------------------------ arrangeUserFirst

\* a nil *model.User: what the unused capacity of a fresh backing array holds
NilUser == [Id |-> 0 - 1, IsBot |-> FALSE, Timezone |-> <<>>]

RECURSIVE Nils(_)
Nils(n) == IF n <= 0 THEN <<>> ELSE <<NilUser>> \o Nils(n - 1)

\* append(s, xs...): mem maps each backing array to its contents (its length is
\* the capacity), s = [arr, len] is a slice from the start of array s.arr.
\* Nothing appended returns s; elements that fit the capacity are written in
\* place; otherwise a fresh array (of twice the capacity, or what is needed if
\* that is more) receives the copy.
GoAppend(mem, s, xs) ==
  LET cap == Len(mem[s.arr])
      need == s.len + Len(xs)
  IN IF xs = <<>> THEN [mem |-> mem, s |-> s]
     ELSE IF need <= cap
       THEN [mem |-> [mem EXCEPT ![s.arr] =
                        SubSeq(@, 1, s.len) \o xs \o SubSeq(@, need + 1, cap)],
             s |-> [arr |-> s.arr, len |-> need]]
       ELSE LET fresh == Cardinality(DOMAIN mem)
                newcap == IF need > 2 * cap THEN need ELSE 2 * cap
                arr == SubSeq(mem[s.arr], 1, s.len) \o xs \o Nils(newcap - need)
            IN [mem |-> [a \in DOMAIN mem \cup {fresh} |->
                           IF a = fresh THEN arr ELSE mem[a]],
                s |-> [arr |-> fresh, len |-> need]]

\* mutant: the search never matches
indexOfUserUnset(userID, users) == 0

\* the loop of arrangeUserFirst: the 0-based index of the first user with the
\* id, 0 when there is none
indexOfUser(userID, users) ==
  IF \E i \in 1..Len(users) : users[i].Id = userID
  THEN (CHOOSE i \in 1..Len(users) :
          /\ users[i].Id = userID
          /\ \A j \in 1..(i - 1) : users[j].Id # userID) - 1
  ELSE 0

\* arrangeUserFirst(userID, users): array 0 is the backing array of users.
\* Returns the new slice's elements and the contents of the users array after
\* the call, or a panic: users[indexOfUser] of an empty slice is out of range.
arrangeUserFirst(userID, users) ==
  IF users = <<>>
  THEN [panic |-> TRUE, sorted |-> <<>>, users |-> users]
  ELSE
    LET idx == indexOfUser(userID, users)
        mem1 == [a \in {0, 1} |-> IF a = 0 THEN users ELSE <<users[idx + 1]>>]
        r2 == GoAppend(mem1, [arr |-> 1, len |-> 1], SubSeq(mem1[0], 1, idx))
        r3 == GoAppend(r2.mem, r2.s, SubSeq(r2.mem[0], idx + 2, Len(users)))
    IN [panic |-> FALSE,
        sorted |-> SubSeq(r3.mem[r3.s.arr], 1, r3.s.len),
        users |-> r3.mem[0]]

\* ------------------------------------------------------------------ display

\* Format("3:04pm") of instant t read in zone loc (t.In(loc)): the hour on the
\* 12-hour clock, the minute, am or pm
Format304pm(t, loc) ==
  LET h == (t + ZoneOffset[loc]) % 24
  IN [hour |-> IF h % 12 = 0 THEN 12 ELSE h % 12, minute |-> 0,
      half |-> IF h < 12 THEN "am" ELSE "pm"]

NoClock == [hour |-> 0, minute |-> 0, half |-> ""]
NoOthers == [count |-> 0, word |-> ""]

\* one line of verboseDisplay
verboseLine(start, end, user) ==
  LET loc == location(user)
  IN IF loc = NilLoc
     THEN [name |-> user.Id, others |-> NoOthers, text |-> "?",
           start |-> NoClock, end |-> NoClock, zone |-> ""]
     ELSE [name |-> user.Id, others |-> NoOthers, text |-> "",
           start |-> Format304pm(start, loc), end |-> Format304pm(end, loc),
           zone |-> ZoneAbbr[loc]]

\* verboseDisplay: one line per user, in the order of users
verboseDisplay(start, end, users) ==
  [i \in 1..Len(users) |-> verboseLine(start, end, users[i])]

RECURSIVE SelectUsers(_, _)
SelectUsers(users, key) ==
  IF users = <<>> THEN <<>>
  ELSE IF LocString(location(Head(users))) = key
       THEN <<Head(users)>> \o SelectUsers(Tail(users), key)
       ELSE SelectUsers(Tail(users), key)

\* the keys of the map usersByTimezone builds: location(user).String() of every
\* user, the empty string skipped
usersByTimezoneKeys(users) ==
  {LocString(location(users[i])) : i \in 1..Len(users)} \ {""}

\* usersByTimezone: key -> the users with that location string, in order
usersByTimezone(users) ==
  [key \in usersByTimezoneKeys(users) |-> SelectUsers(users, key)]

\* othersMsg of compactDisplay
othersMsg(userCount) ==
  IF userCount > 1
  THEN IF userCount = 2 THEN [count |-> 1, word |-> " other"]
       ELSE [count |-> userCount - 1, word |-> " others"]
  ELSE NoOthers

\* compactDisplay: one line per group. The lines come in the iteration order
\* of a Go map, which is not fixed: the message is modelled as the set of its
\* lines. start.In(loc) panics when loc is nil.
compactDisplay(start, end, users) ==
  LET usersMap == usersByTimezone(users)
      line(key) ==
        LET loc == location(usersMap[key][1])
        IN [name |-> usersMap[key][1].Id, others |-> othersMsg(Len(usersMap[key])),
            text |-> "", start |-> Format304pm(start, loc),
            end |-> Format304pm(end, loc), zone |-> ZoneAbbr[loc]]
  IN IF \E key \in DOMAIN usersMap : location(usersMap[key][1]) = NilLoc
     THEN [panic |-> TRUE, lines |-> {}]
     ELSE [panic |-> FALSE, lines |-> {line(key) : key \in DOMAIN usersMap}]

\* ------------------------------------------------------------------ state

VARIABLES
  pc,           \* where the invocation (or the function under check) stands
  command,      \* strings.Fields(args.Command)
  channel,      \* the entries the membership source holds for args.ChannelId
  limit,        \* configuration.MaxChannelMembers
  userId,       \* args.UserId, the invoker
  now,          \* the clock at the first time.Now()
  tickAt,       \* the loop iteration at which the clock has advanced an hour
  serverLoc,    \* time.Local of the server
  page,         \* allUsers' page counter
  allUsers,     \* allUsers' accumulator, then ExecuteCommand's allUsers
  fetchLog,     \* the pages requested from GetUsersInChannel, in order
  fetchErr,     \* TRUE once GetUsersInChannel returned an error
  overCap,      \* TRUE once allUsers returned errMaxChannelMembers
  winRes,       \* the (start, end, ok) window returned
  windowCalls,  \* number of calls of window
  posts,        \* the ephemeral posts sent, in order
  response,     \* what ExecuteCommand returned: "none", "ok", "error", "panic"
  ret           \* the result of the function under check

vars == <<pc, command, channel, limit, userId, now, tickAt, serverLoc, page,
          allUsers, fetchLog, fetchErr, overCap, winRes, windowCalls, posts,
          response, ret>>

\* a model.User with the manual timezone name set
User(id, isBot, name) ==
  [Id |-> id, IsBot |-> isBot,
   Timezone |-> [useAutomaticTimezone |-> "false", automaticTimezone |-> "",
                 manualTimezone |-> name]]

\* a zone name the timezone database does not hold
BogusZone == "Mars/Olympus"

\* the hour the model's days are counted from (day 20000 after the epoch)
BaseHour == 20000 * 24

NoResult == [kind |-> "none"]
NoWindow == [start |-> ZeroTime, end |-> ZeroTime, ok |-> FALSE]

\* sequences over S of length at most n
RECURSIVE SeqsUpTo(_, _)
SeqsUpTo(S, n) ==
  IF n = 0 THEN {<<>>}
  ELSE LET shorter == SeqsUpTo(S, n - 1)
       IN shorter \cup {Append(s, x) : s \in {t \in shorter : Len(t) = n - 1}, x \in S}

\* the variables an invocation of the command uses, at rest
CommandIdle ==
  /\ command = <<"/whentochat">>
  /\ channel = <<>>
  /\ limit = 0
  /\ page = 0
  /\ fetchLog = <<>>
  /\ fetchErr = FALSE
  /\ overCap = FALSE
  /\ windowCalls = 0
  /\ posts = <<>>
  /\ response = "none"

CommandUnchanged ==
  UNCHANGED <<command, channel, limit, page, fetchLog, fetchErr, overCap,
              windowCalls, posts, response>>

\* ------------------------------------------------------------------ window alone

WindowNames == {"", "Asia/Tokyo", "America/Guatemala", "America/Phoenix", BogusZone}
WindowNows == {BaseHour + 3, BaseHour + 16, BaseHour + 23}

WindowLists ==
  {[i \in 1..Len(names) |-> User(i, FALSE, names[i])] : names \in SeqsUpTo(WindowNames, MaxLen)}

InitWindow ==
  /\ pc = "window"
  /\ allUsers \in WindowLists
  /\ now \in WindowNows
  /\ tickAt \in 2..(IF Len(allUsers) < 2 THEN 2 ELSE Len(allUsers) + 1)
  /\ serverLoc \in {"UTC", "Asia/Tokyo"}
  /\ userId = 0
  /\ winRes = NoWindow
  /\ ret = NoResult
  /\ CommandIdle

CallWindow ==
  /\ pc = "window"
  /\ winRes' = window(allUsers, now, tickAt, serverLoc)
  /\ pc' = "done"
  /\ UNCHANGED <<allUsers, now, tickAt, serverLoc, userId, ret>>
  /\ CommandUnchanged

NextWindow == CallWindow

SpecWindow == InitWindow /\ [][NextWindow]_vars

\* ------------------------------------------------------------------ ExecuteCommand

TooManyMessage == "Too many channel members."
NoWindowMessage == "There is no window that suits everyone."
TimesMessage == "It looks like the best times to chat are:\n"

\* the post ExecuteCommand sends with SendEphemeralPost(args.UserId, post)
Post(to, message, bullets, groups) ==
  [to |-> to, message |-> message, bullets |-> bullets, groups |-> groups]

\* the non-bot users of a batch, in order
RECURSIVE NonBots(_)
NonBots(batch) ==
  IF batch = <<>> THEN <<>>
  ELSE IF Head(batch).IsBot THEN NonBots(Tail(batch))
  ELSE <<Head(batch)>> \o NonBots(Tail(batch))

\* GetUsersInChannel(channelID, "username", page, batchSize) when it succeeds
GetUsersInChannel(pg) ==
  SubSeq(channel, pg * batchSize + 1,
         IF (pg + 1) * batchSize < Len(channel) THEN (pg + 1) * batchSize ELSE Len(channel))

CommandNames == {"Asia/Tokyo", "America/Phoenix", BogusZone}

\* the channels of the membership source: entry i has Id i; a bot or a user
\* with one of the names
ChannelEntries(i) ==
  {User(i, TRUE, "")} \cup {User(i, FALSE, n) : n \in CommandNames}

Channels ==
  UNION {{c \in [1..n -> UNION {ChannelEntries(i) : i \in 1..n}] :
            \A i \in 1..n : c[i].Id = i} : n \in 0..MaxMembers}

Init ==
  /\ pc = "start"
  /\ command \in {<<"/whentochat">>, <<"/whentochat", "please">>, <<"/other">>}
  /\ channel \in Channels
  /\ limit \in 0..MaxLimit
  /\ userId \in 0..2
  /\ now = BaseHour + 3
  /\ tickAt = 0
  /\ serverLoc = "UTC"
  /\ page = 0
  /\ allUsers = <<>>
  /\ fetchLog = <<>>
  /\ fetchErr = FALSE
  /\ overCap = FALSE
  /\ winRes = NoWindow
  /\ windowCalls = 0
  /\ posts = <<>>
  /\ response = "none"
  /\ ret = NoResult

\* ExecuteCommand up to the call of allUsers: another trigger returns an empty
\* response at once
Trigger ==
  /\ pc = "start"
  /\ IF command[1] # "/whentochat"
     THEN pc' = "done" /\ response' = "ok"
     ELSE pc' = "fetch" /\ response' = response
  /\ UNCHANGED <<command, channel, limit, userId, now, tickAt, serverLoc, page,
                 allUsers, fetchLog, fetchErr, overCap, winRes, windowCalls,
                 posts, ret>>

\* mutant: the cap is never enforced
exceedsLimitNever(n, lim) == FALSE

\* if len(allUsers) > limit { return allUsers, errMaxChannelMembers }
exceedsLimit(n, lim) == n > lim

\* one iteration of allUsers' loop in which GetUsersInChannel succeeds
FetchPage ==
  /\ pc = "fetch"
  /\ fetchLog' = Append(fetchLog, page)
  /\ LET usersBatch == GetUsersInChannel(page)
         all == allUsers \o NonBots(usersBatch)
     IN /\ allUsers' = all
        /\ IF exceedsLimit(Len(all), limit)
           THEN overCap' = TRUE /\ page' = page /\ pc' = "reply"
           ELSE IF Len(usersBatch) < batchSize
           THEN overCap' = overCap /\ page' = page /\ pc' = "reply"
           ELSE overCap' = overCap /\ page' = page + 1 /\ pc' = "fetch"
  /\ UNCHANGED <<command, channel, limit, userId, now, tickAt, serverLoc,
                 fetchErr, winRes, windowCalls, posts, response, ret>>

\* one iteration of allUsers' loop in which GetUsersInChannel fails: allUsers
\* returns the error and ExecuteCommand returns an AppError
FetchFails ==
  /\ pc = "fetch"
  /\ fetchLog' = Append(fetchLog, page)
  /\ fetchErr' = TRUE
  /\ allUsers' = <<>>
  /\ response' = "error"
  /\ pc' = "done"
  /\ UNCHANGED <<command, channel, limit, userId, now, tickAt, serverLoc, page,
                 overCap, winRes, windowCalls, posts, ret>>

\* ExecuteCommand after allUsers returned errMaxChannelMembers
ReplyTooMany ==
  /\ pc = "reply"
  /\ overCap
  /\ posts' = Append(posts, Post(userId, TooManyMessage, <<>>, {}))
  /\ response' = "ok"
  /\ pc' = "done"
  /\ UNCHANGED <<command, channel, limit, userId, now, tickAt, serverLoc, page,
                 allUsers, fetchLog, fetchErr, overCap, winRes, windowCalls, ret>>

\* ExecuteCommand after allUsers returned the members: window, then the reply
ReplyWindow ==
  /\ pc = "reply"
  /\ ~overCap
  /\ \E t \in 2..(IF Len(allUsers) < 2 THEN 2 ELSE Len(allUsers) + 1) :
       LET w == window(allUsers, now, t, serverLoc)
           arranged == arrangeUserFirst(userId, allUsers)
           compact == compactDisplay(w.start, w.end, arranged.sorted)
       IN /\ tickAt' = t
          /\ winRes' = w
          /\ windowCalls' = windowCalls + 1
          /\ IF ~w.ok
             THEN /\ posts' = Append(posts, Post(userId, NoWindowMessage, <<>>, {}))
                  /\ allUsers' = allUsers
                  /\ response' = "ok"
             ELSE IF arranged.panic
             THEN /\ posts' = posts
                  /\ allUsers' = allUsers
                  /\ response' = "panic"
             ELSE IF Len(arranged.sorted) <= maxDisplayUserBullets
             THEN /\ posts' = Append(posts,
                       Post(userId, TimesMessage,
                            verboseDisplay(w.start, w.end, arranged.sorted), {}))
                  /\ allUsers' = arranged.sorted
                  /\ response' = "ok"
             ELSE IF compact.panic
             THEN /\ posts' = posts
                  /\ allUsers' = arranged.sorted
                  /\ response' = "panic"
             ELSE /\ posts' = Append(posts,
                       Post(userId, TimesMessage, <<>>, compact.lines))
                  /\ allUsers' = arranged.sorted
                  /\ response' = "ok"
  /\ pc' = "done"
  /\ UNCHANGED <<command, channel, limit, userId, now, serverLoc, page,
                 fetchLog, fetchErr, overCap, ret>>

Next == Trigger \/ FetchPage \/ FetchFails \/ ReplyTooMany \/ ReplyWindow

Spec == Init /\ [][Next]_vars

\* ------------------------------------------------------------------ arrangeUserFirst alone

ArrangeLists ==
  SeqsUpTo({User(id, FALSE, n) : id \in 1..3, n \in {"Asia/Tokyo", BogusZone}}, MaxLen)

InitArrange ==
  /\ pc = "arrange"
  /\ allUsers \in ArrangeLists
  /\ userId \in 0..3
  /\ now = BaseHour
  /\ tickAt = 0
  /\ serverLoc = "UTC"
  /\ winRes = NoWindow
  /\ ret = NoResult
  /\ CommandIdle

CallArrange ==
  /\ pc = "arrange"
  /\ ret' = arrangeUserFirst(userId, allUsers)
  /\ pc' = "done"
  /\ UNCHANGED <<allUsers, userId, now, tickAt, serverLoc, winRes>>
  /\ CommandUnchanged

NextArrange == CallArrange

SpecArrange == InitArrange /\ [][NextArrange]_vars

\* ------------------------------------------------------------------ compactDisplay alone

CompactNames == {"", "UTC", "Asia/Tokyo", BogusZone}

CompactLists ==
  {[i \in 1..Len(names) |-> User(i, FALSE, names[i])] : names \in SeqsUpTo(CompactNames, MaxLen)}

InitCompact ==
  /\ pc = "compact"
  /\ allUsers \in CompactLists
  /\ userId = 0
  /\ now = BaseHour
  /\ tickAt = 0
  /\ serverLoc = "UTC"
  /\ winRes \in {[start |-> BaseHour + 7, end |-> BaseHour + 13, ok |-> TRUE],
                 [start |-> BaseHour + 14, end |-> BaseHour + 22, ok |-> TRUE]}
  /\ ret = NoResult
  /\ CommandIdle

CallCompact ==
  /\ pc = "compact"
  /\ ret' = [groups |-> usersByTimezone(allUsers),
             display |-> compactDisplay(winRes.start, winRes.end, allUsers)]
  /\ pc' = "done"
  /\ UNCHANGED <<allUsers, userId, now, tickAt, serverLoc, winRes>>
  /\ CommandUnchanged

NextCompact == CallCompact

SpecCompact == InitCompact /\ [][NextCompact]_vars

\* ------------------------------------------------------------------ location alone

Missing == "<missing>"
FlagValues == {Missing, "", "true", "false", "1", "0", "T", "False", "yes", "TRUE "}
NameValues == {Missing, "", "UTC", "Asia/Tokyo", "America/Phoenix", BogusZone}

\* a user.Timezone map: a key whose value is Missing is not in the map
TimezoneMap(flag, auto, manual) ==
  LET val == [k \in {"useAutomaticTimezone", "automaticTimezone", "manualTimezone"} |->
                CASE k = "useAutomaticTimezone" -> flag
                  [] k = "automaticTimezone" -> auto
                  [] k = "manualTimezone" -> manual]
  IN [k \in {x \in DOMAIN val : val[x] # Missing} |-> val[k]]

InitLocation ==
  /\ pc = "location"
  /\ \E flag \in FlagValues, auto \in NameValues, manual \in NameValues :
       allUsers = <<[Id |-> 1, IsBot |-> FALSE, Timezone |-> TimezoneMap(flag, auto, manual)]>>
  /\ userId = 0
  /\ now = BaseHour
  /\ tickAt = 0
  /\ serverLoc = "UTC"
  /\ winRes = NoWindow
  /\ ret = NoResult
  /\ CommandIdle

CallLocation ==
  /\ pc = "location"
  /\ ret' = [kind |-> "location", loc |-> location(allUsers[1])]
  /\ pc' = "done"
  /\ UNCHANGED <<allUsers, userId, now, tickAt, serverLoc, winRes>>
  /\ CommandUnchanged

NextLocation == CallLocation

SpecLocation == InitLocation /\ [][NextLocation]_vars

\* ------------------------------------------------------------------ claims on window

\* the members (positions) of allUsers whose timezone resolves
Resolved == {i \in 1..Len(allUsers) : location(allUsers[i]) # NilLoc}

\* the 07:00 and 22:00 instants window computes for member i
Member07(i) ==
  userEarliestStart(Clock(now, tickAt, i), serverLoc, location(allUsers[i]))
Member22(i) ==
  userLatestEnd(Clock(now, tickAt, i), serverLoc, location(allUsers[i]))

Max07 == CHOOSE x \in {Member07(i) : i \in Resolved} :
           \A j \in Resolved : Member07(j) <= x
Min22 == CHOOSE x \in {Member22(i) : i \in Resolved} :
           \A j \in Resolved : x <= Member22(j)

\* allUsers without the members whose timezone does not resolve
RECURSIVE KnownOnly(_)
KnownOnly(us) ==
  IF us = <<>> THEN <<>>
  ELSE IF location(Head(us)) = NilLoc THEN KnownOnly(Tail(us))
  ELSE <<Head(us)>> \o KnownOnly(Tail(us))

\* the clock does not advance while window runs
ClockStill == tickAt > Len(allUsers)

\* C1: for a non-empty member list with at least one resolvable timezone,
\* whenever window reports ok the returned start is before end and the window
\* lies inside the 07:00-22:00 window of every member with a resolved timezone.
C1_IntersectionInsideEveryWindow ==
  (pc = "done" /\ allUsers # <<>> /\ Resolved # {} /\ winRes.ok)
    => /\ winRes.start < winRes.end
       /\ \A i \in Resolved : Member07(i) <= winRes.start /\ winRes.end <= Member22(i)

\* C1 witness: a window was found that one member bounds from below and another
\* member bounds from above.
C1_Witness ==
  /\ pc = "done" /\ winRes.ok
  /\ \E i, j \in Resolved :
       /\ Member07(i) < winRes.start /\ winRes.end = Member22(i)
       /\ Member07(j) = winRes.start /\ winRes.end < Member22(j)

\* C2 (as claimed): members with an unknown timezone contribute no constraint:
\* window returns the same ok, and the same start and end when ok, as for the
\* list with the unknown-timezone members removed.
C2_UnknownMembersContributeNothing ==
  (pc = "done" /\ ClockStill)
    => LET r == window(KnownOnly(allUsers), now, Len(allUsers) + 1, serverLoc)
       IN /\ winRes.ok = r.ok
          /\ winRes.ok => (winRes.start = r.start /\ winRes.end = r.end)

\* C4 (as claimed): for a non-empty list whose members all resolve, window
\* reports ok exactly when the latest 07:00 is strictly before the earliest
\* 22:00, and then start is that latest 07:00 and end that earliest 22:00; when
\* all members share one timezone the result is exactly that timezone's window
\* (the 07:00-22:00 computed for a member of it); two members whose windows do
\* not overlap give no window.
C4_MaxStartBeforeMinEnd ==
  (pc = "done" /\ allUsers # <<>> /\ Resolved = 1..Len(allUsers))
    => /\ winRes.ok <=> Max07 < Min22
       /\ winRes.ok => (winRes.start = Max07 /\ winRes.end = Min22)
       /\ (\A i \in Resolved : location(allUsers[i]) = location(allUsers[1]))
            => /\ winRes.ok
               /\ \E i \in Resolved :
                    winRes.start = Member07(i) /\ winRes.end = Member22(i)
       /\ (\E i, j \in Resolved : Member22(i) <= Member07(j)) => ~winRes.ok

\* C5 (as claimed): the 07:00 and 22:00 instants computed for a member fall on
\* the calendar date that is current in that member's own zone at evaluation
\* time; a single resolved member's window is that member's own local today.
C5_WindowOnMembersLocalDate ==
  pc = "done"
    => /\ \A i \in Resolved :
            LET loc == location(allUsers[i])
                today == LocalDay(Clock(now, tickAt, i), loc)
            IN LocalDay(Member07(i), loc) = today /\ LocalDay(Member22(i), loc) = today
       /\ (Len(allUsers) = 1 /\ Resolved = {1})
            => /\ winRes.ok
               /\ LocalDay(winRes.start, location(allUsers[1]))
                    = LocalDay(now, location(allUsers[1]))

\* ------------------------------------------------------------------ claims on ExecuteCommand

\* the first n entries of s
Take(s, n) == SubSeq(s, 1, IF n < Len(s) THEN n ELSE Len(s))

\* the non-bot members on the pages requested so far
FetchedMembers == NonBots(Take(channel, Len(fetchLog) * batchSize))

\* the invocation has returned (or faulted)
Returned == pc = "done"

\* C3 (as claimed): when the member list is empty or no member has a resolvable
\* timezone, window reports ok = false and ExecuteCommand replies with the
\* fixed "no window" message.
C3_NoResolvableMemberNoWindow ==
  (Returned /\ windowCalls = 1
     /\ \A i \in 1..Len(allUsers) : location(allUsers[i]) = NilLoc)
    => /\ ~winRes.ok
       /\ posts = <<Post(userId, NoWindowMessage, <<>>, {})>>
       /\ response = "ok"

\* C7: pages are requested in increasing order from page 0; no page is
\* requested once the non-bot members of the pages before it exceed the cap;
\* allUsers reports over-cap exactly when the members fetched exceed the cap,
\* and ExecuteCommand then sends the fixed "Too many channel members." post,
\* returns a response without error and never calls window.
C7_OverCapStopsPaging ==
  /\ \A i \in 1..Len(fetchLog) :
       /\ fetchLog[i] = i - 1
       /\ i > 1 => Len(NonBots(Take(channel, (i - 1) * batchSize))) <= limit
  /\ (pc = "reply" \/ (Returned /\ ~fetchErr /\ fetchLog # <<>>))
       => (overCap <=> Len(FetchedMembers) > limit)
  /\ overCap => pc \in {"reply", "done"}
  /\ (Returned /\ overCap)
       => /\ posts = <<Post(userId, TooManyMessage, <<>>, {})>>
          /\ response = "ok"
          /\ windowCalls = 0
          /\ winRes = NoWindow

\* C7 witness: the cap was exceeded on the second page, a full page after which
\* paging would otherwise have gone on, and the invocation returned.
C7_Witness ==
  /\ Returned /\ overCap
  /\ fetchLog = <<0, 1>>
  /\ Len(channel) >= 2 * batchSize
  /\ Len(posts) = 1

\* C10 (as claimed): at most one ephemeral post is sent, to the invoker; a
\* failed fetch gives an error, no post and no further fetch; another trigger
\* fetches nothing and posts nothing; every other invocation sends exactly one
\* post and returns without error.
C10_OneReplyOrError ==
  /\ Len(posts) <= 1
  /\ \A i \in 1..Len(posts) : posts[i].to = userId
  /\ fetchErr => (Returned /\ response = "error" /\ posts = <<>>)
  /\ \A i, j \in 1..Len(fetchLog) : i # j => fetchLog[i] # fetchLog[j]
  /\ (Returned /\ command[1] # "/whentochat") => (fetchLog = <<>> /\ posts = <<>>)
  /\ (Returned /\ command[1] = "/whentochat" /\ ~fetchErr)
       => (Len(posts) = 1 /\ response = "ok")

\* ------------------------------------------------------------------ claims on arrangeUserFirst

\* how often x occurs in s
Count(s, x) == Cardinality({i \in 1..Len(s) : s[i] = x})

\* s without its k-th element
Without(s, k) == SubSeq(s, 1, k - 1) \o SubSeq(s, k + 1, Len(s))

InvokerPresent == \E i \in 1..Len(allUsers) : allUsers[i].Id = userId

\* C6: for an invoker present in the list, arrangeUserFirst returns the invoker
\* at index 0, a list of the same length and the same multiset of members, all
\* other members in their original relative order, and leaves the input list
\* unchanged.
C6_InvokerFirstOthersInOrder ==
  (pc = "done" /\ InvokerPresent)
    => /\ ~ret.panic
       /\ ret.sorted[1].Id = userId
       /\ Len(ret.sorted) = Len(allUsers)
       /\ \A i \in 1..Len(allUsers) :
            Count(ret.sorted, allUsers[i]) = Count(allUsers, allUsers[i])
       /\ \E k \in 1..Len(allUsers) :
            /\ allUsers[k] = ret.sorted[1]
            /\ Tail(ret.sorted) = Without(allUsers, k)
       /\ ret.users = allUsers

\* C6 witness: the invoker was last of three members and has been moved first.
C6_Witness ==
  /\ pc = "done"
  /\ Len(allUsers) = 3
  /\ allUsers[3].Id = userId /\ allUsers[1].Id # userId /\ allUsers[2].Id # userId
  /\ ret.sorted = <<allUsers[3], allUsers[1], allUsers[2]>>

\* ------------------------------------------------------------------ claims on compactDisplay

\* the members of allUsers whose timezone does not resolve
Unknown == {i \in 1..Len(allUsers) : location(allUsers[i]) = NilLoc}

\* the sum of f over the finite set S
RECURSIVE Sum(_, _)
Sum(f, S) ==
  IF S = {} THEN 0
  ELSE LET x == CHOOSE y \in S : TRUE IN f[x] + Sum(f, S \ {x})

\* C8 (as claimed): every member with a resolved timezone is in exactly one
\* group, the group of its timezone, and no unknown-timezone member is in any
\* group; the display has one line per distinct resolved timezone, the group
\* sizes of the lines sum to the members minus the unknown-timezone members,
\* and every line is rendered in the zone its group shares.
C8_CompactGroupsResolvedMembersOnly ==
  pc = "done"
    => /\ \A i \in Resolved :
            /\ location(allUsers[i]) \in DOMAIN ret.groups
            /\ \A key \in DOMAIN ret.groups :
                 Count(ret.groups[key], allUsers[i])
                   = IF key = location(allUsers[i]) THEN 1 ELSE 0
       /\ \A i \in Unknown : \A key \in DOMAIN ret.groups :
            Count(ret.groups[key], allUsers[i]) = 0
       /\ ~ret.display.panic
       /\ Cardinality(ret.display.lines)
            = Cardinality({location(allUsers[i]) : i \in Resolved})
       /\ Sum([l \in ret.display.lines |-> 1 + l.others.count], ret.display.lines)
            = Len(allUsers) - Cardinality(Unknown)
       /\ \A key \in DOMAIN ret.groups : \A i \in 1..Len(ret.groups[key]) :
            location(ret.groups[key][i]) = key

\* ------------------------------------------------------------------ claims on location

\* the strings strconv.ParseBool reads as true
TrueStrings == {"1", "t", "T", "TRUE", "true", "True"}

\* C9 (as claimed): location selects the automatic zone name when the flag
\* parses as true and the manual zone name otherwise, and returns nil when the
\* selected name is empty or not in the timezone database, the zone of that
\* name otherwise.
C9_LocationResolvesSelectedName ==
  pc = "done"
    => LET tz == allUsers[1].Timezone
           name == IF Lookup(tz, "useAutomaticTimezone") \in TrueStrings
                   THEN Lookup(tz, "automaticTimezone")
                   ELSE Lookup(tz, "manualTimezone")
       IN ret.loc = IF name = "" \/ name \notin DOMAIN ZoneOffset THEN NilLoc ELSE name

\* ------------------------------------------------------------------ claims on the list arrangeUserFirst receives

\* ExecuteCommand went past the "no window" reply: arrangeUserFirst was called,
\* with the members allUsers returned
ArrangeReached == Returned /\ windowCalls = 1 /\ winRes.ok

\* C11 (as claimed): ExecuteCommand never indexes the member list out of range:
\* whenever arrangeUserFirst is reached the list is non-empty, also when the
\* membership source returned no non-bot member or a list without the invoker,
\* and the invocation completes with one reply instead of faulting; when the
\* invoker is absent the members keep their original order.
C11_ArrangeNeverOutOfRange ==
  ArrangeReached
    => /\ FetchedMembers # <<>>
       /\ response = "ok"
       /\ Len(posts) = 1
       /\ (\A i \in 1..Len(FetchedMembers) : FetchedMembers[i].Id # userId)
            => allUsers = FetchedMembers

====
